---- MODULE Spec2Model ----
(***************************************************************************)
(* Model of src/python/audio2face_unreal.py: the command-line session      *)
(* (main), the batch and single-file drivers (process_workspace,           *)
(* process_single_file), the stream aggregator (_process_with_nvidia_sdk)  *)
(* and the asset generation (_generate_animation_assets).                  *)
(*                                                                         *)
(* Two specifications share the variables:                                 *)
(*   Spec          the whole session, one step per suspension point;       *)
(*   SpecRequests  the request-sequence construction alone, over audio     *)
(*                 buffers that span several 4096-byte chunks.             *)
(***************************************************************************)
EXTENDS Integers, Sequences, FiniteSets, TLC

VARIABLES
    pc,                   \* position of the session (main and its callees)
    exit_code,            \* process exit status; -1 while running
    NVIDIA_SDK_AVAILABLE, \* module-level flag set by the import at start-up
    args_single,          \* --single
    input_is_wav,         \* input_path.suffix == '.wav'
    channel,              \* self.channel: "none" | "open" | "closed"
    mode,                 \* "none" | "single" | "batch"
    wav_files,            \* sorted list of the files to process
    file_idx,             \* index in wav_files of the file being processed
    attempted,            \* history: files handed to the aggregator, in order
    audio_data,           \* bytes of the current file
    requests,             \* outbound request list of the current file
    sent,                 \* what was submitted to ProcessAudioStream (last stream)
    received,             \* history: responses that arrived on the last stream
    animation_frames,     \* frames collected from the current stream
    animation_data,       \* the aggregator's return value, or NoResult
    generated_assets,     \* list of asset paths the driver returns
    disk,                 \* asset files an exporter wrote completely
    outcome,              \* history: per file "pending" | "ok" | "read_error" | "rpc_error"
    metadata,             \* record _export_metadata dumped for the last file, if any
    failure               \* history: the unrecoverable failure met, or "none"

vars == <<pc, exit_code, NVIDIA_SDK_AVAILABLE, args_single, input_is_wav,
          channel, mode, wav_files, file_idx, attempted, audio_data, requests,
          sent, received, animation_frames, animation_data, generated_assets,
          disk, outcome, metadata, failure>>

\* ---------------------------------------------------------------- bounds
MaxFiles == 2        \* most files in a workspace's audio/ directory
MaxResponses == 2    \* most responses the service sends on one stream
MaxChunks == 2       \* SpecRequests: audio spans up to this many full chunks
MaxSeed == 3         \* SpecRequests: seeds of the audio byte patterns
MaxSlack == 3        \* SpecRequests: bytes short of / beyond a chunk boundary

\* ------------------------------------------------------- request building
chunk_size == 4096

Min(a, b) == IF a < b THEN a ELSE b

\* An audio buffer of n bytes; byte values differ from chunk to chunk.
AudioBytes(n, seed) == [i \in 1..n |-> (seed + 3 * i) % 251]

\* controller_pb2.AudioStream(audio_stream_header=header)
HeaderMsg ==
    [kind |-> "audio_stream_header",
     audio_format |-> "AUDIO_FORMAT_PCM",
     channel_count |-> 1, samples_per_second |-> 16000, bits_per_sample |-> 16]

\* controller_pb2.AudioStream(audio_with_emotion=AudioWithEmotion(audio_buffer=chunk))
ChunkMsg(chunk) == [kind |-> "audio_with_emotion", audio_buffer |-> chunk]

\* controller_pb2.AudioStream(end_of_audio=EndOfAudio())
EndMsg == [kind |-> "end_of_audio"]

\* range(start, stop, step) as the list of values it yields
RECURSIVE Range(_, _, _)
Range(start, stop, step) ==
    IF start >= stop THEN <<>>
    ELSE <<start>> \o Range(start + step, stop, step)

RangeStopMut(audio) == Len(audio) + 1
\* the stop of range(0, len(audio_data), chunk_size)
RangeStop(audio) == Len(audio)

SliceMut(audio, i) == SubSeq(audio, i + 1, Min(i + chunk_size - 1, Len(audio)))
\* audio_data[i:i + chunk_size] (0-based, end exclusive, clipped to the length)
Slice(audio, i) == SubSeq(audio, i + 1, Min(i + chunk_size, Len(audio)))

\* the loop "for i in range(...): requests.append(AudioStream(chunk))"
ChunkMsgs(audio) ==
    LET offs == Range(0, RangeStop(audio), chunk_size)
    IN  [k \in 1..Len(offs) |-> ChunkMsg(Slice(audio, offs[k]))]

build_requestsMut(audio) == <<HeaderMsg>> \o ChunkMsgs(audio)
\* requests = [header] + chunks + [end_of_audio]
build_requests(audio) == <<HeaderMsg>> \o ChunkMsgs(audio) \o <<EndMsg>>

\* ------------------------------------------------------ service responses
\* One entry of skel_animation.blend_shape_weights.  has_time_code / has_values
\* say whether the attribute exists on the entry; when it does not, the field
\* of the record is never read by getattr / hasattr.
Entry(ht, t, hv, v) ==
    [has_time_code |-> ht, time_code |-> t, has_values |-> hv, values |-> v]

EntryA == Entry(TRUE, 2, TRUE, <<7, 8>>)
EntryB == Entry(TRUE, 1, TRUE, <<9>>)
EntryNoTime == Entry(FALSE, 5, TRUE, <<7, 8>>)
EntryNoValues == Entry(TRUE, 1, FALSE, <<6>>)

Response(anim, skel, bsw, coll) ==
    [has_animation_data |-> anim, has_skel_animation |-> skel,
     has_blend_shape_weights |-> bsw, blend_shape_weights |-> coll]

\* The responses the service may send: without animation data, with animation
\* data but a missing attribute on the path, with an empty collection, with
\* one entry, with two entries.
Responses ==
    { Response(FALSE, FALSE, FALSE, <<>>),
      Response(TRUE, FALSE, FALSE, <<>>),
      Response(TRUE, TRUE, FALSE, <<>>),
      Response(TRUE, TRUE, TRUE, <<>>),
      Response(TRUE, TRUE, TRUE, <<EntryA>>),
      Response(TRUE, TRUE, TRUE, <<EntryNoTime>>),
      Response(TRUE, TRUE, TRUE, <<EntryNoValues>>),
      Response(TRUE, TRUE, TRUE, <<EntryB, EntryA>>) }

HasAnimationDataMut(response) ==
    /\ response.has_animation_data
    /\ response.has_skel_animation
    /\ response.has_blend_shape_weights
    /\ Len(response.blend_shape_weights) > 0
\* response.HasField('animation_data')
HasAnimationData(response) == response.has_animation_data

\* the collection the code reaches through the two hasattr tests, if any
HasCollection(response) ==
    response.has_skel_animation /\ response.has_blend_shape_weights

\* getattr(blend_shape_weights, 'time_code', 0)
GetTimeCode(entry) == IF entry.has_time_code THEN entry.time_code ELSE 0

\* list(blend_shape_weights.values) if hasattr(..., 'values'), else the initial []
GetValues(entry) == IF entry.has_values THEN entry.values ELSE <<>>

RECURSIVE ConcatValues(_)
ConcatValues(coll) ==
    IF coll = <<>> THEN <<>>
    ELSE GetValues(Head(coll)) \o ConcatValues(Tail(coll))

ExtractFrameMut(response) ==
    IF HasCollection(response) /\ Len(response.blend_shape_weights) > 0
    THEN [time_code |-> GetTimeCode(response.blend_shape_weights[1]),
          blendshape_weights |-> ConcatValues(response.blend_shape_weights)]
    ELSE [time_code |-> 0, blendshape_weights |-> <<>>]
\* frame_data built from one response that has animation data
ExtractFrame(response) ==
    IF HasCollection(response) /\ Len(response.blend_shape_weights) > 0
    THEN [time_code |-> GetTimeCode(response.blend_shape_weights[1]),
          blendshape_weights |-> GetValues(response.blend_shape_weights[1])]
    ELSE [time_code |-> 0, blendshape_weights |-> <<>>]

AppendFrameMut(frames, frame) == <<frame>> \o frames
\* animation_frames.append(frame_data)
AppendFrame(frames, frame) == Append(frames, frame)

RECURSIVE MaxTimeCode(_)
MaxTimeCode(frames) ==
    IF Len(frames) = 1 THEN frames[1].time_code
    ELSE LET m == MaxTimeCode(Tail(frames))
         IN  IF frames[1].time_code > m THEN frames[1].time_code ELSE m

DurationMut(frames) ==
    IF frames # <<>> THEN frames[Len(frames)].time_code ELSE 0
\* max(f['time_code'] for f in animation_frames) if animation_frames else 0
Duration(frames) == IF frames # <<>> THEN MaxTimeCode(frames) ELSE 0

\* the dict returned by _process_with_nvidia_sdk
AnimationResult(wav_file, frames) ==
    [source_file |-> wav_file, frames |-> frames,
     duration |-> Duration(frames), frame_count |-> Len(frames)]

\* ------------------------------------------------------------ the session
\* the audio buffers read_bytes() yields in Spec: an empty and a one-byte file
ShortAudio == {AudioBytes(n, 0) : n \in {0, 1}}

\* the orders in which glob('*.wav') may list n files named 1..n
Listings(n) == {s \in [1..n -> 1..n] : \A i, j \in 1..n : s[i] = s[j] => i = j}

\* f"{base_name}_animation.usd", f"{base_name}_animation.json", f"{base_name}_metadata.json"
Asset(base_name, kind) == <<base_name, kind>>

\* generated_files of _generate_animation_assets: each exporter's path unless
\* the exporter caught an exception and returned None
AssetFiles(base_name, usd_ok, json_ok, meta_ok) ==
    (IF usd_ok THEN <<Asset(base_name, "usd")>> ELSE <<>>)
    \o (IF json_ok THEN <<Asset(base_name, "json")>> ELSE <<>>)
    \o (IF meta_ok THEN <<Asset(base_name, "meta")>> ELSE <<>>)

SeqRange(s) == {s[i] : i \in 1..Len(s)}

\* a Python number as a fraction; 0 is 0/1, and den = 0 is a division by zero
Fraction(n, d) == [num |-> n, den |-> d]

FrameRateMut(result) == Fraction(result.frame_count, result.duration)
\* animation_data['frame_count'] / animation_data['duration']
\*     if animation_data['duration'] > 0 else 0
FrameRate(result) ==
    IF result.duration > 0
    THEN Fraction(result.frame_count, result.duration)
    ELSE Fraction(0, 1)

\* len(animation_data['frames'][0]['blendshape_weights'])
\*     if animation_data['frames'] else 0
BlendshapeCount(result) ==
    IF result.frames # <<>> THEN Len(result.frames[1].blendshape_weights) ELSE 0

\* the metadata dict of _export_metadata
Metadata(result, base_name) ==
    [animation_name |-> base_name,
     source_audio |-> result.source_file,
     duration_seconds |-> result.duration,
     frame_count |-> result.frame_count,
     frame_rate |-> FrameRate(result),
     blendshape_count |-> BlendshapeCount(result),
     export_info |-> [usd_file |-> Asset(base_name, "usd"),
                      json_file |-> Asset(base_name, "json"),
                      metahuman_compatible |-> TRUE]]

ClosedMut(ch) == ch
\* Processor.close(): closes the channel if there is one
Closed(ch) == IF ch = "open" THEN "closed" ELSE ch

\* sys.exit(code) or the end of main; `closes` says whether the exit is inside
\* main's try block, whose finally clause awaits processor.close()
Terminate(code, why, closes) ==
    /\ pc' = "exited"
    /\ exit_code' = code
    /\ failure' = why
    /\ channel' = IF closes THEN Closed(channel) ELSE channel

MainExceptMut(why) == IF why = "processing_exception" THEN 0 ELSE 1
\* "except Exception as e: logger.error(...); sys.exit(1)": the exit status
MainExcept(why) == 1

RpcErrorRaisesMut == FALSE
\* "except grpc.aio.AioRpcError as e: logger.error(...); raise"
RpcErrorRaises == TRUE

OnFileExceptionMut(m) == "raise"
\* what the driver does with an exception of one file: process_workspace logs
\* it and goes on with the loop, process_single_file logs it and re-raises
OnFileException(m) == IF m = "batch" THEN "continue" ELSE "raise"

\* the locals of _process_with_nvidia_sdk and of the loop body are dropped
DropLocals ==
    /\ audio_data' = <<>>
    /\ requests' = <<>>
    /\ animation_frames' = <<>>
    /\ animation_data' = <<>>

\* the for loop of process_workspace moves on; after the last file it returns
\* to main; process_single_file returns to main
NextFile ==
    IF mode = "batch" /\ file_idx < Len(wav_files)
    THEN pc' = "process_file" /\ file_idx' = file_idx + 1
    ELSE pc' = "report" /\ UNCHANGED file_idx

\* an exception raised while processing wav_files[file_idx]
FileException(error) ==
    /\ outcome' = [outcome EXCEPT ![file_idx] = error]
    /\ DropLocals
    /\ UNCHANGED <<generated_assets, disk>>
    /\ IF OnFileException(mode) = "continue"
       THEN NextFile /\ UNCHANGED <<exit_code, failure, channel>>
       ELSE Terminate(MainExcept("processing_exception"), "processing_exception", TRUE)
            /\ UNCHANGED file_idx

Init ==
    /\ pc = "start"
    /\ exit_code = -1
    /\ NVIDIA_SDK_AVAILABLE \in BOOLEAN
    /\ args_single \in BOOLEAN
    /\ input_is_wav \in BOOLEAN
    /\ channel = "none"
    /\ mode = "none"
    /\ wav_files = <<>>
    /\ file_idx = 0
    /\ attempted = <<>>
    /\ audio_data = <<>>
    /\ requests = <<>>
    /\ sent = <<>>
    /\ received = <<>>
    /\ animation_frames = <<>>
    /\ animation_data = <<>>
    /\ generated_assets = <<>>
    /\ disk = {}
    /\ outcome = <<>>
    /\ metadata = <<>>
    /\ failure = "none"

work_vars == <<mode, wav_files, file_idx, attempted, audio_data, requests, sent,
               received, animation_frames, animation_data, generated_assets,
               disk, outcome, metadata>>
arg_vars == <<NVIDIA_SDK_AVAILABLE, args_single, input_is_wav>>

\* main: "if not input_path.exists(): ... sys.exit(1)", before the processor exists
InputMissing ==
    /\ pc = "start"
    /\ Terminate(1, "missing_input", FALSE)
    /\ UNCHANGED <<arg_vars, work_vars>>

InputExists ==
    /\ pc = "start"
    /\ pc' = "connect"
    /\ UNCHANGED <<exit_code, failure, channel, arg_vars, work_vars>>

\* connect_to_audio2face returns True
ConnectOk ==
    /\ pc = "connect"
    /\ NVIDIA_SDK_AVAILABLE
    /\ channel' = "open"
    /\ pc' = "options"
    /\ UNCHANGED <<exit_code, failure, arg_vars, work_vars>>

\* connect_to_audio2face returns False (no SDK, or an exception creating the
\* channel or, with self.channel already set, the stub); main prints and calls
\* sys.exit(1) inside the try, so the finally clause awaits processor.close()
ConnectFails ==
    /\ pc = "connect"
    /\ \E stage \in {"sdk", "channel", "stub"} :
        /\ (stage = "sdk") = ~NVIDIA_SDK_AVAILABLE
        /\ exit_code' = 1
        /\ failure' = "connect_failed"
        /\ pc' = "exited"
        /\ channel' = Closed(IF stage = "stub" THEN "open" ELSE channel)
    /\ UNCHANGED <<arg_vars, work_vars>>

\* "if args.config and Path(args.config).exists(): options = yaml.safe_load(f)"
LoadOptions ==
    /\ pc = "options"
    /\ pc' = "dispatch"
    /\ UNCHANGED <<exit_code, failure, channel, arg_vars, work_vars>>

OptionsFail ==
    /\ pc = "options"
    /\ Terminate(MainExcept("config_error"), "config_error", TRUE)
    /\ UNCHANGED <<arg_vars, work_vars>>

\* main: --single with a path that is not a .wav file
SingleNotWav ==
    /\ pc = "dispatch"
    /\ args_single /\ ~input_is_wav
    /\ Terminate(1, "not_wav", TRUE)
    /\ UNCHANGED <<arg_vars, work_vars>>

\* main calls process_single_file, which passes its own validation (the path
\* exists and ends in .wav) and creates the export directory
StartSingle ==
    /\ pc = "dispatch"
    /\ input_is_wav
    /\ mode' = "single"
    /\ wav_files' = <<1>>
    /\ outcome' = <<"pending">>
    /\ file_idx' = 1
    /\ pc' = "process_file"
    /\ UNCHANGED <<exit_code, failure, channel, arg_vars, attempted, audio_data,
                   requests, sent, received, animation_frames, animation_data,
                   generated_assets, disk, metadata>>

\* process_workspace raises ValueError: no audio/ directory, or no *.wav in it
WorkspaceInvalid ==
    /\ pc = "dispatch"
    /\ ~args_single /\ ~input_is_wav
    /\ \E why \in {"no_audio_dir", "no_wav_files"} :
        Terminate(MainExcept(why), why, TRUE)
    /\ mode' = "batch"
    /\ UNCHANGED <<arg_vars, wav_files, file_idx, attempted, audio_data, requests,
                   sent, received, animation_frames, animation_data,
                   generated_assets, disk, outcome, metadata>>

\* process_workspace: glob, sort, create the export directory, enter the loop
StartBatch ==
    /\ pc = "dispatch"
    /\ ~args_single /\ ~input_is_wav
    /\ \E n \in 1..MaxFiles : \E listing \in Listings(n) :
        /\ wav_files' = SortSeq(listing, LAMBDA a, b : a < b)
        /\ outcome' = [i \in 1..n |-> "pending"]
    /\ mode' = "batch"
    /\ file_idx' = 1
    /\ pc' = "process_file"
    /\ UNCHANGED <<exit_code, failure, channel, arg_vars, attempted, audio_data,
                   requests, sent, received, animation_frames, animation_data,
                   generated_assets, disk, metadata>>

\* _process_with_nvidia_sdk up to the first await: read the file, build the
\* request list, hand it to stub.ProcessAudioStream
OpenStream ==
    /\ pc = "process_file"
    /\ attempted' = Append(attempted, wav_files[file_idx])
    /\ \E audio \in ShortAudio :
        /\ audio_data' = audio
        /\ requests' = build_requests(audio)
        /\ sent' = build_requests(audio)
    /\ received' = <<>>
    /\ animation_frames' = <<>>
    /\ metadata' = <<>>
    /\ pc' = "streaming"
    /\ UNCHANGED <<exit_code, failure, channel, arg_vars, mode, wav_files,
                   file_idx, animation_data, generated_assets, disk, outcome>>

\* wav_file.read_bytes() raises (the path is unreadable)
ReadFails ==
    /\ pc = "process_file"
    /\ attempted' = Append(attempted, wav_files[file_idx])
    /\ sent' = <<>>
    /\ received' = <<>>
    /\ metadata' = <<>>
    /\ FileException("read_error")
    /\ UNCHANGED <<arg_vars, mode, wav_files>>

\* one iteration of "async for response in response_stream"
ReceiveResponse ==
    /\ pc = "streaming"
    /\ Len(received) < MaxResponses
    /\ \E response \in Responses :
        /\ received' = Append(received, response)
        /\ animation_frames' =
             IF HasAnimationData(response)
             THEN AppendFrame(animation_frames, ExtractFrame(response))
             ELSE animation_frames
    /\ UNCHANGED <<pc, exit_code, failure, channel, arg_vars, mode, wav_files,
                   file_idx, attempted, audio_data, requests, sent,
                   animation_data, generated_assets, disk, outcome, metadata>>

\* the stream ends normally: the result dict is returned to the driver
StreamCompletes ==
    /\ pc = "streaming"
    /\ animation_data' = <<AnimationResult(wav_files[file_idx], animation_frames)>>
    /\ pc' = "generate"
    /\ UNCHANGED <<exit_code, failure, channel, arg_vars, mode, wav_files,
                   file_idx, attempted, audio_data, requests, sent, received,
                   animation_frames, generated_assets, disk, outcome, metadata>>

\* the stream raises grpc.aio.AioRpcError (abrupt end, protocol error, or the
\* deadline given by timeout=self.timeout expired)
StreamFails ==
    /\ pc = "streaming"
    /\ IF RpcErrorRaises
       THEN FileException("rpc_error")
       ELSE /\ animation_data' =
                 <<AnimationResult(wav_files[file_idx], animation_frames)>>
            /\ pc' = "generate"
            /\ outcome' = [outcome EXCEPT ![file_idx] = "rpc_error"]
            /\ UNCHANGED <<exit_code, failure, channel, file_idx, audio_data,
                           requests, animation_frames, generated_assets, disk>>
    /\ UNCHANGED <<arg_vars, mode, wav_files, attempted, sent, received,
                   metadata>>

\* _generate_animation_assets and the driver's use of its result
GenerateAssets ==
    /\ pc = "generate"
    /\ \E usd_ok, json_ok, meta_ok \in BOOLEAN :
        LET asset_files ==
                AssetFiles(animation_data[1].source_file, usd_ok, json_ok, meta_ok)
        IN  /\ disk' = disk \cup SeqRange(asset_files)
            /\ generated_assets' = generated_assets \o asset_files
            /\ metadata' =
                 IF meta_ok
                 THEN <<Metadata(animation_data[1], animation_data[1].source_file)>>
                 ELSE <<>>
    /\ outcome' = [outcome EXCEPT ![file_idx] =
                       IF @ = "pending" THEN "ok" ELSE @]
    /\ DropLocals
    /\ sent' = <<>>
    /\ received' = <<>>
    /\ NextFile
    /\ UNCHANGED <<exit_code, failure, channel, arg_vars, mode, wav_files,
                   attempted>>

\* main prints the results and ends; the finally clause closes the connection
Report ==
    /\ pc = "report"
    /\ Terminate(0, "none", TRUE)
    /\ sent' = <<>>
    /\ received' = <<>>
    /\ UNCHANGED <<arg_vars, mode, wav_files, file_idx, attempted, audio_data,
                   requests, animation_frames, animation_data, generated_assets,
                   disk, outcome, metadata>>

Next ==
    \/ InputMissing
    \/ InputExists
    \/ ConnectOk
    \/ ConnectFails
    \/ LoadOptions
    \/ OptionsFail
    \/ SingleNotWav
    \/ StartSingle
    \/ WorkspaceInvalid
    \/ StartBatch
    \/ OpenStream
    \/ ReadFails
    \/ ReceiveResponse
    \/ StreamCompletes
    \/ StreamFails
    \/ GenerateAssets
    \/ Report

Spec == Init /\ [][Next]_vars

\* ------------------------------------------- request building on its own
\* lengths around every multiple of the chunk size up to MaxChunks chunks
AudioLengths ==
    {n \in {k * chunk_size + d : k \in 0..MaxChunks, d \in -MaxSlack..MaxSlack} : n >= 0}

AudioInputs == {AudioBytes(n, seed) : n \in AudioLengths, seed \in 0..MaxSeed}

InitRequests ==
    /\ pc = "build"
    /\ audio_data \in AudioInputs
    /\ requests = <<>>
    /\ exit_code = -1
    /\ NVIDIA_SDK_AVAILABLE = TRUE
    /\ args_single = TRUE
    /\ input_is_wav = TRUE
    /\ channel = "open"
    /\ mode = "single"
    /\ wav_files = <<1>>
    /\ file_idx = 1
    /\ attempted = <<1>>
    /\ sent = <<>>
    /\ received = <<>>
    /\ animation_frames = <<>>
    /\ animation_data = <<>>
    /\ generated_assets = <<>>
    /\ disk = {}
    /\ outcome = <<"pending">>
    /\ metadata = <<>>
    /\ failure = "none"

\* lines 185-228 of _process_with_nvidia_sdk applied to the buffer read
BuildRequests ==
    /\ pc = "build"
    /\ requests' = build_requests(audio_data)
    /\ pc' = "built"
    /\ UNCHANGED <<exit_code, failure, channel, arg_vars, mode, wav_files,
                   file_idx, attempted, audio_data, sent, received,
                   animation_frames, animation_data, generated_assets, disk,
                   outcome, metadata>>

NextRequests == BuildRequests

SpecRequests == InitRequests /\ [][NextRequests]_vars

\* ================================================================ claims
IsHeader(m) == m.kind = "audio_stream_header"
IsChunk(m) == m.kind = "audio_with_emotion"
IsEnd(m) == m.kind = "end_of_audio"

\* the audio-chunk messages of a request list, in sequence order
ChunksOf(reqs) == SelectSeq(reqs, IsChunk)

RECURSIVE ConcatPayloads(_)
ConcatPayloads(chunks) ==
    IF chunks = <<>> THEN <<>>
    ELSE Head(chunks).audio_buffer \o ConcatPayloads(Tail(chunks))

\* C1: the request list built for an audio buffer is one header message in
\* first position, then only audio-chunk messages, then one end-of-stream
\* marker in last position; no header or end marker occurs anywhere else.
C1_HeaderChunksEnd ==
    pc = "built" =>
        /\ Len(requests) >= 2
        /\ IsHeader(requests[1])
        /\ IsEnd(requests[Len(requests)])
        /\ \A i \in 2..(Len(requests) - 1) : IsChunk(requests[i])

C1_Witness ==
    /\ pc = "built"
    /\ Len(requests) = 4
    /\ Len(audio_data) > chunk_size

\* C2: for an audio buffer of L bytes the number of audio-chunk messages is
\* ceil(L / 4096), every chunk but possibly the last has exactly 4096 bytes,
\* the last one is not empty, and the payloads concatenated in sequence order
\* are the original L bytes.
C2_ChunkingRoundTrip ==
    pc = "built" =>
        LET chunks == ChunksOf(requests)
            L == Len(audio_data)
        IN  /\ Len(chunks) = (L + 4095) \div 4096
            /\ \A i \in 1..(Len(chunks) - 1) : Len(chunks[i].audio_buffer) = 4096
            /\ \A i \in 1..Len(chunks) :
                   Len(chunks[i].audio_buffer) \in 1..4096
            /\ ConcatPayloads(chunks) = audio_data

C2_Witness ==
    /\ pc = "built"
    /\ Len(audio_data) = 4097
    /\ Len(ChunksOf(requests)) = 2
    /\ Len(ChunksOf(requests)[2].audio_buffer) = 1

\* -------------------------------------------------- helpers of the claims
Failed(k) == outcome[k] \in {"read_error", "rpc_error"}

AssetsOf(base_name) == {Asset(base_name, kind) : kind \in {"usd", "json", "meta"}}

IsAnim(response) == response.has_animation_data

\* number of responses with animation data among the first i of s
AnimCount(s, i) == Cardinality({k \in 1..i : s[k].has_animation_data})

\* the collection of a response is absent or empty
NoWeights(response) ==
    \/ ~response.has_skel_animation
    \/ ~response.has_blend_shape_weights
    \/ response.blend_shape_weights = <<>>

EmptyFrame == [time_code |-> 0, blendshape_weights |-> <<>>]

\* the frame the specification asks for: the first entry's time code and
\* weights, with 0 and the empty sequence for what is unset or absent
SpecFrame(response) ==
    IF NoWeights(response) THEN EmptyFrame
    ELSE LET first == response.blend_shape_weights[1]
         IN  [time_code |-> IF first.has_time_code THEN first.time_code ELSE 0,
              blendshape_weights |-> IF first.has_values THEN first.values ELSE <<>>]

InStream == pc \in {"streaming", "generate"}

\* C3: when the stream of file k fails with a transport error (timeout
\* included), no AnimationResult exists for that file, the frames collected
\* so far are gone, no asset of the file is written or returned, and the
\* error reaches the caller: single-file mode ends with exit status 1.
C3_NoPartialResult ==
    \A k \in 1..Len(outcome) :
        outcome[k] = "rpc_error" =>
            /\ AssetsOf(wav_files[k]) \cap (disk \cup SeqRange(generated_assets)) = {}
            /\ animation_data = <<>> \/ animation_data[1].source_file # wav_files[k]
            /\ k = file_idx => animation_frames = <<>>
            /\ pc # "generate" \/ file_idx # k
            /\ mode = "single" => pc = "exited" /\ exit_code = 1

C3_Witness ==
    /\ pc = "process_file"
    /\ file_idx = 2
    /\ outcome[1] = "rpc_error"
    /\ AnimCount(received, Len(received)) >= 1

\* C4 as stated: a zero-length audio buffer is rejected before any request
\* message is built and before the exchange is opened, and no AnimationResult
\* is produced for it.
C4_EmptyInputRejected ==
    (InStream /\ audio_data = <<>>) =>
        /\ requests = <<>>
        /\ sent = <<>>
        /\ animation_data = <<>>

\* C4 amended: a zero-length audio buffer is not rejected: its request list
\* is the header immediately followed by the end marker, with no audio chunk;
\* that list is submitted to the service, and on normal completion an
\* AnimationResult with the frames collected from the responses is returned.
C4_EmptyInputStreamed ==
    (InStream /\ audio_data = <<>>) =>
        /\ Len(requests) = 2
        /\ IsHeader(requests[1])
        /\ IsEnd(requests[2])
        /\ sent = requests
        /\ pc = "generate" =>
               /\ Len(animation_data) = 1
               /\ animation_data[1].frame_count = AnimCount(received, Len(received))

C4_Witness ==
    /\ pc = "generate"
    /\ audio_data = <<>>
    /\ Len(sent) = 2
    /\ animation_data[1].frame_count >= 1

\* C5: in a batch the files are attempted in sorted order, each exactly once,
\* whatever happens to the others; when the batch ends every file has been
\* attempted; a failing file contributes no asset; every asset written for a
\* file whose aggregation succeeded is in the returned list, in file order.
C5_BatchIsolation ==
    (mode = "batch" /\ wav_files # <<>>) =>
        /\ \A i, j \in 1..Len(wav_files) : i < j => wav_files[i] < wav_files[j]
        /\ Len(attempted) <= Len(wav_files)
        /\ attempted = SubSeq(wav_files, 1, Len(attempted))
        /\ pc \in {"report", "exited"} =>
               /\ attempted = wav_files
               /\ \A k \in 1..Len(outcome) : outcome[k] # "pending"
        /\ \A k \in 1..Len(outcome) :
               Failed(k) =>
                   AssetsOf(wav_files[k]) \cap (disk \cup SeqRange(generated_assets)) = {}
        /\ \A k \in 1..Len(outcome) :
               outcome[k] = "ok" =>
                   AssetsOf(wav_files[k]) \cap disk \subseteq SeqRange(generated_assets)
        /\ \A i, j \in 1..Len(generated_assets) :
               i < j => generated_assets[i][1] <= generated_assets[j][1]

C5_Witness ==
    /\ mode = "batch"
    /\ pc = "exited"
    /\ outcome = <<"rpc_error", "ok">>
    /\ generated_assets =
           <<Asset(wav_files[2], "usd"), Asset(wav_files[2], "json"),
             Asset(wav_files[2], "meta")>>

\* C6: on normal completion frame_count is the number of responses that had
\* animation data, and duration is the largest time code among the frames of
\* the result, or 0 when there is no frame.
C6_CountAndDuration ==
    pc = "generate" =>
        LET result == animation_data[1]
            n == AnimCount(received, Len(received))
        IN  /\ result.frame_count = n
            /\ Len(result.frames) = n
            /\ n = 0 => result.duration = 0
            /\ n > 0 =>
                   /\ \E i \in 1..n : result.frames[i].time_code = result.duration
                   /\ \A i \in 1..n : result.frames[i].time_code <= result.duration

C6_Witness ==
    /\ pc = "generate"
    /\ Len(received) = 2
    /\ ~received[1].has_animation_data
    /\ animation_data[1].frame_count = 1
    /\ animation_data[1].duration = 2

\* C7: the i-th frame is the frame of the i-th response that had animation
\* data, at every moment of the stream and in the returned result, also when
\* the time codes do not increase.
C7_ArrivalOrder ==
    InStream =>
        LET anim == SelectSeq(received, IsAnim)
        IN  /\ Len(animation_frames) = Len(anim)
            /\ \A i \in 1..Len(anim) : animation_frames[i] = SpecFrame(anim[i])
            /\ pc = "generate" => animation_data[1].frames = animation_frames

C7_Witness ==
    /\ pc = "generate"
    /\ Len(animation_data[1].frames) = 2
    /\ animation_data[1].frames[1].time_code > animation_data[1].frames[2].time_code

\* C8: a response with animation data whose collection is absent or empty
\* gives exactly one frame, with time code 0 and no weights, at its place in
\* the arrival order; the stream goes on and every response with animation
\* data, before or after it, has its frame.
C8_EmptyCollectionFrame ==
    InStream =>
        /\ Len(animation_frames) = AnimCount(received, Len(received))
        /\ \A i \in 1..Len(received) :
               (received[i].has_animation_data /\ NoWeights(received[i])) =>
                   /\ AnimCount(received, i) <= Len(animation_frames)
                   /\ animation_frames[AnimCount(received, i)] = EmptyFrame

C8_Witness ==
    /\ pc = "streaming"
    /\ Len(received) = 2
    /\ received[1].has_animation_data
    /\ received[1].has_blend_shape_weights
    /\ received[1].blend_shape_weights = <<>>
    /\ animation_frames = <<EmptyFrame, [time_code |-> 2, blendshape_weights |-> <<7, 8>>]>>

\* C9: for a response whose collection has at least one entry the frame has
\* the first entry's time code (0 if unset) and the first entry's weights
\* (none if unset); the weights of later entries are not part of the frame.
C9_FirstEntryOnly ==
    InStream =>
        \A i \in 1..Len(received) :
            (received[i].has_animation_data /\ ~NoWeights(received[i])) =>
                LET first == received[i].blend_shape_weights[1]
                    j == AnimCount(received, i)
                IN  /\ j <= Len(animation_frames)
                    /\ animation_frames[j].time_code =
                           (IF first.has_time_code THEN first.time_code ELSE 0)
                    /\ animation_frames[j].blendshape_weights =
                           (IF first.has_values THEN first.values ELSE <<>>)
                    /\ Len(animation_frames[j].blendshape_weights) =
                           (IF first.has_values THEN Len(first.values) ELSE 0)

C9_Witness ==
    /\ pc = "streaming"
    /\ Len(received) = 1
    /\ Len(received[1].blend_shape_weights) = 2
    /\ animation_frames = <<[time_code |-> 1, blendshape_weights |-> <<9>>]>>

\* C10 as stated: the process ends with a non-zero exit status whenever the
\* input path is missing, the connection fails or, in either mode,
\* processing a file raised an exception.
C10_NonZeroOnAnyFailure ==
    (pc = "exited" /\ (failure # "none" \/ \E k \in 1..Len(outcome) : Failed(k)))
        => exit_code # 0

\* C10 amended: the exit status is 1 exactly when the input path is missing,
\* the connection fails, the settings file cannot be loaded, --single names
\* a path that is not a .wav file, the workspace has no audio directory or
\* no WAV file, or the file of single-file mode raised an exception; a batch
\* that entered its loop ends with status 0 whatever files failed.
C10_ExitStatus ==
    pc = "exited" =>
        /\ exit_code \in {0, 1}
        /\ exit_code = 1 <=>
               failure \in {"missing_input", "connect_failed", "config_error",
                            "not_wav", "no_audio_dir", "no_wav_files",
                            "processing_exception"}
        /\ failure = "processing_exception" <=> (mode = "single" /\ Failed(1))
        /\ (mode = "batch" /\ wav_files # <<>>) => exit_code = 0

C10_Witness ==
    /\ pc = "exited"
    /\ mode = "batch"
    /\ \A k \in 1..Len(outcome) : Failed(k)
    /\ Len(outcome) = 2
    /\ exit_code = 0

\* C11: once the channel has been created the process never ends with it
\* open: after normal completion, a processing exception, a --single path
\* that is not a .wav file, a settings or workspace error, and a failed
\* connection check that had already created the channel, it is closed.
C11_ClosedOnEveryExit ==
    pc = "exited" =>
        /\ channel # "open"
        /\ failure \in {"none", "processing_exception", "not_wav", "config_error",
                        "no_audio_dir", "no_wav_files"} => channel = "closed"
        /\ failure = "missing_input" => channel = "none"

C11_Witness ==
    /\ pc = "exited"
    /\ failure = "processing_exception"
    /\ outcome = <<"rpc_error">>
    /\ channel = "closed"

\* C12: whenever _export_metadata dumps its record for an AnimationResult,
\* frame_rate is a number (nothing was divided by zero): it is 0 when the
\* duration is 0, with or without frames, and frame_count / duration
\* otherwise; blendshape_count is 0 when the result has no frame and the
\* length of the first frame's weights otherwise.
C12_MetadataNoDivisionByZero ==
    [][(pc = "generate" /\ metadata' # <<>>) =>
           LET result == animation_data[1]
               m == metadata'[1]
           IN  /\ m.frame_rate.den # 0
               /\ result.duration = 0 => m.frame_rate.num = 0
               /\ result.duration > 0 =>
                      /\ m.frame_rate.num = result.frame_count
                      /\ m.frame_rate.den = result.duration
               /\ result.frames = <<>> =>
                      /\ result.frame_count = 0
                      /\ result.duration = 0
                      /\ m.blendshape_count = 0
               /\ result.frames # <<>> =>
                      m.blendshape_count = Len(result.frames[1].blendshape_weights)
               /\ m.frame_count = result.frame_count
               /\ m.duration_seconds = result.duration]_vars

C12_Witness ==
    /\ metadata # <<>>
    /\ metadata[1].frame_count = 2
    /\ metadata[1].duration_seconds = 0
    /\ metadata[1].frame_rate.num = 0
    /\ metadata[1].blendshape_count = 2

====
